---- MODULE Spec2Model ----
(***************************************************************************)
(* Security orchestrator (orchestrator.py): the poll loop, the playbook    *)
(* matcher, the action dispatcher and the in-memory incident map.          *)
(*                                                                         *)
(* Strings that the code searches in (event_type, message, tags, triggers) *)
(* are sequences of one-character strings, so that `in` and lower() are    *)
(* computed.  Strings that the code only compares or copies (severities,   *)
(* action types, addresses, user names) are TLA+ strings.                  *)
(***************************************************************************)
EXTENDS Integers, Sequences, FiniteSets, TLC

VARIABLES
    \* environment
    files,          \* listing of /app/playbooks: the parsed YAML of each file
    slack,          \* SLACK_WEBHOOK_URL is set
    index,          \* documents of siem-events-*, security-alerts-*
    clock,          \* wall clock, in ticks
    \* SecurityOrchestrator
    sys,            \* "startup" until initialize() has run, then "serving",
                    \* "stopped" once the server has shut down
    playbooks,      \* self.playbooks
    incidents,      \* self.incidents: incident_id -> IncidentResponse
    \* coroutines: task[1] is the monitor task, the others are the
    \* background tasks of POST /manual-response; each is a record of where
    \* the coroutine stands (pc) and of its local variables
    task,
    \* bookkeeping of the run (read by the properties only); each coroutine
    \* also keeps the batch it works on and a log of what it did with it
    started,        \* number of execute_playbook calls entered
    executed,       \* number of incidents written to self.incidents
    created,        \* <<record, playbook>> -> incidents written for the pair
    polls,          \* queries issued to the event source
    upsets,         \* environment events so far (see MaxUpsets)
    \* matcher harness
    mPc,            \* "input" before the call, "done" after it, "off" unused
    mEvent,         \* the SecurityEvent passed in
    mPlaybook,      \* the PlaybookConfig passed in
    mResult         \* what event_matches_playbook returned

envVars == <<files, slack, index, clock>>
orchVars == <<sys, playbooks, incidents>>
bookVars == <<started, executed, created, polls, upsets>>
pipeVars == <<envVars, orchVars, task, bookVars>>
matchVars == <<mPc, mEvent, mPlaybook, mResult>>
vars == <<pipeVars, matchVars>>

----------------------------------------------------------------------------
(* Bounds *)

MaxStrLen == 2      \* longest searched string drawn for the matcher
MaxTriggers == 2    \* most triggers of a drawn playbook

----------------------------------------------------------------------------
(* Strings *)

Letters == {"a", "A"}

\* str.lower() on one character
LowerChar(c) ==
    CASE c = "A" -> "a"
      [] c = "S" -> "s"
      [] c = "Q" -> "q"
      [] c = "L" -> "l"
      [] OTHER -> c

\* str.lower()
lower(s) == [i \in 1..Len(s) |-> LowerChar(s[i])]

\* Python's `needle in haystack` on str: contiguous substring
Contains(needle, haystack) ==
    \E i \in 0..(Len(haystack) - Len(needle)) :
        \A j \in 1..Len(needle) : haystack[i + j] = needle[j]

\* dict.get(key, default)
Get(d, key, default) == IF key \in DOMAIN d THEN d[key] ELSE default

StrsUpTo(n) == UNION {[1..k -> Letters] : k \in 0..n}

----------------------------------------------------------------------------
(* Matcher: SecurityOrchestrator.event_matches_playbook *)

\* mutant: medium and high exchanged
severity_levels_swapped ==
    [info |-> 1, low |-> 2, medium |-> 4, high |-> 3, critical |-> 5]

severity_levels ==
    [info |-> 1, low |-> 2, medium |-> 3, high |-> 4, critical |-> 5]

KnownSeverities == {"info", "low", "medium", "high", "critical"}

\* mutant: a severity outside the table ranks as the highest
event_severity_top(ev) == Get(severity_levels, ev.severity, 5)

event_severity(ev) == Get(severity_levels, ev.severity, 0)

\* mutant: an unknown threshold ranked 0, like an unknown event severity
threshold_severity_lowest(playbook) ==
    Get(severity_levels, playbook.severity_threshold, 0)

threshold_severity(playbook) ==
    Get(severity_levels, playbook.severity_threshold, 5)

\* the condition of the `for trigger in playbook.triggers` loop's if
trigger_hits(trigger, ev) ==
    \/ Contains(trigger, ev.event_type)
    \/ Contains(trigger, lower(ev.description))
    \/ \E k \in 1..Len(ev.tags) : Contains(trigger, ev.tags[k])

\* mutant: the enabled flag is not looked at
event_matches_playbook_any(ev, playbook) ==
    IF event_severity(ev) < threshold_severity(playbook) THEN FALSE
    ELSE \E i \in 1..Len(playbook.triggers) :
            trigger_hits(playbook.triggers[i], ev)

event_matches_playbook(ev, playbook) ==
    IF ~playbook.enabled THEN FALSE
    ELSE IF event_severity(ev) < threshold_severity(playbook) THEN FALSE
    ELSE \E i \in 1..Len(playbook.triggers) :
            trigger_hits(playbook.triggers[i], ev)

----------------------------------------------------------------------------
(* Time *)

TicksPerSecond == 2     \* resolution of the modelled clock
PollSeconds == 10       \* asyncio.sleep(10) after a poll
BackoffSeconds == 30    \* asyncio.sleep(30) after a failed poll
WindowSeconds == 60     \* "gte": "now-1m"
QuerySize == 100        \* "size": 100

MaxPolls == 2           \* queries the monitor issues in a run
MaxManual == 1          \* background tasks of POST /manual-response
MaxUpsets == 1          \* environment events in a run: backend calls that
                        \* fail, clock ticks while a call is awaited, and
                        \* manual-response requests

\* datetime.now().strftime('%Y%m%d-%H%M%S'): the instant cut to its second
strftime(now) == now \div TicksPerSecond

\* text of a timestamp: the instant it denotes and whether the text is in
\* the form datetime.fromisoformat accepts
isoformat(now) == [instant |-> now, iso |-> TRUE]

CanParse(text) == text.iso

fromisoformat(text) == text.instant

----------------------------------------------------------------------------
(* Event source: the documents of the index and the monitor's query *)

None == "None"

Sql == <<"s", "q", "l">>
Auth == <<"a">>
Web == <<"w">>
UnknownType == <<"u">>

\* {"match": {"tags": ...}} clauses of the query
WatchTags == {Sql, Auth, Web}

Doc1 == [event_type |-> Sql, security_severity |-> "critical",
         source |-> "waf", source_ip |-> "10.0.0.5",
         message |-> <<"S", "Q", "L">>, tags |-> <<Sql>>]
        @@ ("@timestamp" :> isoformat(0))

Doc2 == [event_type |-> Sql, security_severity |-> "high",
         source |-> "waf", source_ip |-> "10.0.0.9", username |-> "bob",
         message |-> <<"s", "q", "l">>, tags |-> <<>>]
        @@ ("@timestamp" :> isoformat(1))

Doc3 == [event_type |-> Auth, security_severity |-> "low",
         source |-> "sshd", username |-> "bob",
         message |-> <<>>, tags |-> <<Auth>>]
        @@ ("@timestamp" :> isoformat(2))

Doc4 == [event_type |-> Sql, security_severity |-> "critical",
         source |-> "waf", source_ip |-> "10.0.0.7",
         message |-> <<>>, tags |-> <<Sql>>]
        @@ ("@timestamp" :> [instant |-> 3, iso |-> FALSE])

\* one of many documents that the query selects (by its tag) and that no
\* playbook of the explored deployments matches
FillerDoc == [event_type |-> Web, security_severity |-> "low",
              source |-> "proxy", message |-> <<>>, tags |-> <<Web>>]
             @@ ("@timestamp" :> isoformat(1))

Hit(id, doc) == [_id |-> id, _source |-> doc]

\* ids of as many filler documents as one answer of the query holds
FillerIds == {4 + k : k \in 1..QuerySize}

HitIds == {1, 2, 3, 4} \cup FillerIds

InWindow(doc, now) ==
    doc["@timestamp"].instant >= now - WindowSeconds * TicksPerSecond

Relevant(doc) ==
    \/ doc.security_severity \in {"critical", "high"}
    \/ \E k \in 1..Len(doc.tags) : doc.tags[k] \in WatchTags

\* g stands before h in the answer: the newer document first ("sort":
\* "@timestamp" desc); documents of one instant stand in the order of their ids
Before(g, h) ==
    \/ g._source["@timestamp"].instant > h._source["@timestamp"].instant
    \/ /\ g._source["@timestamp"].instant = h._source["@timestamp"].instant
       /\ g._id < h._id

SortDesc(S) ==
    LET ahead == [h \in S |-> Cardinality({g \in S : Before(g, h)})] IN
    [n \in 1..Cardinality(S) |-> CHOOSE h \in S : ahead[h] = n - 1]

FirstN(s, n) == SubSeq(s, 1, IF Len(s) < n THEN Len(s) ELSE n)

\* es_client.search(index=..., body=query)['hits']['hits']
search(idx, now) ==
    FirstN(SortDesc({h \in idx : /\ InWindow(h._source, now)
                                 /\ Relevant(h._source)}), QuerySize)

----------------------------------------------------------------------------
(* Playbook files and load_playbooks *)

Act(type) == [type |-> type]

FileSqli == [name |-> "sqli", triggers |-> <<Sql>>,
             severity_threshold |-> "high",
             actions |-> <<Act("block_ip"), Act("send_alert")>>]

FileOdd == [name |-> "odd", triggers |-> <<Sql>>,
            severity_threshold |-> "high",
            actions |-> <<Act("create_ticket"), Act("quarantine"),
                          Act("block_ip"), Act("send_alert")>>]

FileOff == [name |-> "off", triggers |-> <<Sql>>,
            severity_threshold |-> "info", enabled |-> FALSE,
            actions |-> <<Act("send_alert")>>]

FileAuth == [name |-> "auth", triggers |-> <<Web, Auth>>,
             severity_threshold |-> "info", enabled |-> TRUE,
             actions |-> <<Act("disable_user"), Act("isolate_host")>>]

FileBad == [name |-> "bad", triggers |-> <<Sql>>]

Yaml(data) == [ext |-> "yaml", data |-> data]

\* the deployments explored: a listing of /app/playbooks and the documents
\* of the index
Setup(listing, webhook, docs) ==
    [files |-> listing, slack |-> webhook, index |-> docs]

Setups ==
    {Setup(<<Yaml(FileSqli)>>, w, {Hit(1, Doc1), Hit(2, Doc2)}) :
        w \in BOOLEAN}
    \cup
    {Setup(<<Yaml(FileSqli), Yaml(FileOdd)>>, w,
           {Hit(1, Doc1), Hit(4, Doc4)}) : w \in BOOLEAN}
    \cup
    {Setup(<<Yaml(FileOff), Yaml(FileSqli)>>, TRUE,
           {Hit(1, Doc1), Hit(3, Doc3)}),
     Setup(<<Yaml(FileAuth), Yaml(FileOdd)>>, FALSE,
           {Hit(2, Doc2), Hit(3, Doc3)}),
     Setup(<<[ext |-> "md", data |-> FileBad], Yaml(FileAuth)>>, FALSE,
           {Hit(3, Doc3), Hit(4, Doc4)}),
     Setup(<<Yaml(FileSqli), Yaml(FileBad), Yaml(FileAuth)>>, TRUE,
           {Hit(1, Doc1), Hit(3, Doc3)}),
     Setup(<<Yaml(FileSqli)>>, FALSE,
           {Hit(1, Doc1)} \cup {Hit(k, FillerDoc) : k \in FillerIds})}

\* PlaybookConfig(**playbook_data) raises unless the required fields are there
ValidPlaybook(data) ==
    {"name", "triggers", "severity_threshold", "actions"} \subseteq DOMAIN data

PlaybookConfig(data) ==
    [name |-> data.name, triggers |-> data.triggers,
     severity_threshold |-> data.severity_threshold,
     actions |-> data.actions, enabled |-> Get(data, "enabled", TRUE)]

\* the loop of load_playbooks from the i-th file on; an exception leaves it
RECURSIVE load_from(_, _, _)
load_from(listing, i, acc) ==
    IF i > Len(listing) THEN acc
    ELSE IF listing[i].ext \notin {"yaml", "yml"}
        THEN load_from(listing, i + 1, acc)
    ELSE IF ~ValidPlaybook(listing[i].data) THEN acc
    ELSE load_from(listing, i + 1,
                   Append(acc, PlaybookConfig(listing[i].data)))

load_playbooks(listing) == load_from(listing, 1, <<>>)

----------------------------------------------------------------------------
(* Events *)

\* SecurityEvent(...) of process_security_event raises when the timestamp
\* text cannot be parsed
CanBuildEvent(event_data, now) ==
    CanParse(Get(event_data, "@timestamp", isoformat(now)))

\* (raw_data, a copy of event_data that nothing reads, is left out)
SecurityEvent(event_data, now) ==
    [timestamp |-> fromisoformat(Get(event_data, "@timestamp", isoformat(now))),
     event_type |-> Get(event_data, "event_type", UnknownType),
     severity |-> Get(event_data, "security_severity", "info"),
     source |-> Get(event_data, "source", "unknown"),
     source_ip |-> Get(event_data, "source_ip", None),
     user |-> Get(event_data, "username", None),
     description |-> Get(event_data, "message", <<>>),
     tags |-> Get(event_data, "tags", <<>>)]

NoEvent ==
    [timestamp |-> 0, event_type |-> <<>>, severity |-> "", source |-> "",
     source_ip |-> None, user |-> None, description |-> <<>>,
     tags |-> <<>>]

\* bodies of POST /manual-response: event.dict() of the validated request
ManualEvents ==
    {[timestamp |-> 0, event_type |-> Sql, severity |-> "critical",
      source |-> "operator", source_ip |-> "10.0.0.5", user |-> "bob",
      description |-> Sql, raw_data |-> <<>>, tags |-> <<Auth>>]}

----------------------------------------------------------------------------
(* Action capabilities *)

KnownTypes ==
    {"block_ip", "disable_user", "send_alert", "isolate_host", "create_ticket"}

\* the capability reaches an awaited backend call: block_ip_address and
\* isolate_host return at once without an address, disable_user_account
\* without a user; send_security_alert posts only with a Slack webhook
AwaitsBackend(type, ev, webhook) ==
    CASE type = "block_ip" -> ev.source_ip \notin {None, ""}
      [] type = "isolate_host" -> ev.source_ip \notin {None, ""}
      [] type = "disable_user" -> ev.user \notin {None, ""}
      [] type = "send_alert" -> webhook
      [] type = "create_ticket" -> TRUE
      [] OTHER -> FALSE

\* the string execute_playbook appends after the capability has returned
Summary(type, ev) ==
    CASE type = "block_ip" -> <<"Blocked IP", ev.source_ip>>
      [] type = "disable_user" -> <<"Disabled user", ev.user>>
      [] type = "send_alert" -> <<"Sent security alert">>
      [] type = "isolate_host" -> <<"Isolated host", ev.source_ip>>
      [] type = "create_ticket" -> <<"Created incident ticket">>

\* actions_taken after the branch of execute_playbook for one action
AfterAction(taken, type, ev) ==
    IF type \in KnownTypes THEN Append(taken, Summary(type, ev)) ELSE taken

\* mutant: the action list is walked from its end
ActionAtReversed(playbook, i) ==
    playbook.actions[Len(playbook.actions) + 1 - i]

\* the action the i-th pass of `for action in playbook.actions` handles
ActionAt(playbook, i) == playbook.actions[i]

\* f"incident-{now:%Y%m%d-%H%M%S}-{event.event_type}"
IncidentId(now, ev) == <<"incident", strftime(now), ev.event_type>>

\* mutant: the incident is closed by the pipeline as soon as it is written
IncidentResponseResolved(id, ev, taken, now) ==
    [incident_id |-> id, severity |-> ev.severity, status |-> "resolved",
     actions_taken |-> taken, timestamp |-> now, resolved |-> TRUE]

IncidentResponse(id, ev, taken, now) ==
    [incident_id |-> id, severity |-> ev.severity, status |-> "active",
     actions_taken |-> taken, timestamp |-> now, resolved |-> FALSE]

\* GET /incidents
get_incidents(store) == {store[id] : id \in DOMAIN store}

\* GET /stats
get_stats(store, registry) ==
    [active_incidents |-> Cardinality(DOMAIN store),
     loaded_playbooks |-> Len(registry), status |-> "active"]

----------------------------------------------------------------------------
(* Coroutines *)

\* A coroutine is suspended at "query" (the awaited search), "sleep" and
\* "backoff" (asyncio.sleep), "inflight" (the awaited backend call of a
\* capability), "store" (the awaited call of store_incident), "queued" (a
\* background task not yet started) and "done".  Between two suspensions it
\* holds the event loop: "event", "match" and "action" are the places it
\* passes through, and one step of the model runs it to its next suspension.

Monitor == 1

NewTask(kind, at, batch) ==
    [kind |-> kind, pc |-> at, hits |-> batch, eid |-> 0, event |-> NoEvent,
     pbi |-> 0, ai |-> 0, actions_taken |-> <<>>, incident_id |-> <<>>,
     wake |-> 0, calls |-> <<>>, batch |-> batch, log |-> <<>>,
     answers |-> <<>>]

\* log entries: "event" (a record became a SecurityEvent), "drop" (the
\* constructor raised), "start" and "end" (execute_playbook entered for
\* playbook pbi, and returned after store_incident with outcome stored)
Entry(kind, eid, ev, pbi, id, stored) ==
    [kind |-> kind, eid |-> eid, event |-> ev, pbi |-> pbi, id |-> id,
     stored |-> stored]

NoIncidents == [id \in {} |-> NoEvent]

ManualIds == {0 - k : k \in 1..MaxManual}

\* the coroutine t together with the shared state it reads and writes
Machine(t) ==
    [t |-> task[t], incidents |-> incidents, started |-> started,
     executed |-> executed, created |-> created]

Call(i, type, outcome) == [idx |-> i, type |-> type, outcome |-> outcome]

\* mutant: the error of the SecurityEvent constructor is not caught in
\* process_security_event: the monitor's except clause ends the batch with
\* the 30 s sleep, a background task ends
NextRecordFatal(m) ==
    IF m.t.hits = <<>>
    THEN [m EXCEPT !.t = [NewTask(m.t.kind, "done", <<>>) EXCEPT
                             !.pc = IF m.t.kind = "monitor" THEN "sleep"
                                    ELSE "done",
                             !.wake = clock + PollSeconds * TicksPerSecond,
                             !.batch = m.t.batch, !.log = m.t.log,
                             !.answers = m.t.answers]]
    ELSE LET hit == Head(m.t.hits) IN
         IF CanBuildEvent(hit._source, clock)
         THEN [m EXCEPT !.t.hits = Tail(@), !.t.eid = hit._id,
                        !.t.event = SecurityEvent(hit._source, clock),
                        !.t.pbi = 1, !.t.pc = "match",
                        !.t.log = Append(@, Entry("event", hit._id,
                                     SecurityEvent(hit._source, clock),
                                     0, <<>>, ""))]
         ELSE [m EXCEPT !.t = [NewTask(m.t.kind, "done", <<>>) EXCEPT
                             !.pc = IF m.t.kind = "monitor" THEN "backoff"
                                    ELSE "done",
                             !.wake = clock + BackoffSeconds * TicksPerSecond,
                             !.batch = m.t.batch,
                             !.log = Append(m.t.log,
                                        Entry("drop", hit._id, NoEvent,
                                              0, <<>>, "")),
                             !.answers = m.t.answers]]

\* mutant: process_security_event is started for the record but not
\* awaited: the loop goes to the next record at once
NextRecordDetached(m) ==
    IF m.t.hits = <<>>
    THEN [m EXCEPT !.t = [NewTask(m.t.kind, "done", <<>>) EXCEPT
                             !.pc = IF m.t.kind = "monitor" THEN "sleep"
                                    ELSE "done",
                             !.wake = clock + PollSeconds * TicksPerSecond,
                             !.batch = m.t.batch, !.log = m.t.log,
                             !.answers = m.t.answers]]
    ELSE LET hit == Head(m.t.hits) IN
         IF CanBuildEvent(hit._source, clock)
         THEN [m EXCEPT !.t.hits = Tail(@), !.t.eid = hit._id,
                        !.t.log = Append(@, Entry("event", hit._id,
                                     SecurityEvent(hit._source, clock),
                                     0, <<>>, ""))]
         ELSE [m EXCEPT !.t.hits = Tail(@), !.t.eid = hit._id,
                        !.t.log = Append(@, Entry("drop", hit._id, NoEvent,
                                                  0, <<>>, ""))]

\* top of `for hit in response['hits']['hits']` / entry of the background
\* task: process_security_event builds the event, or the constructor raises
\* and the record is logged and dropped; after the last record the monitor
\* goes to asyncio.sleep(10) and a background task ends
NextRecord(m) ==
    IF m.t.hits = <<>>
    THEN [m EXCEPT !.t = [NewTask(m.t.kind, "done", <<>>) EXCEPT
                             !.pc = IF m.t.kind = "monitor" THEN "sleep"
                                    ELSE "done",
                             !.wake = clock + PollSeconds * TicksPerSecond,
                             !.batch = m.t.batch, !.log = m.t.log,
                             !.answers = m.t.answers]]
    ELSE LET hit == Head(m.t.hits) IN
         IF CanBuildEvent(hit._source, clock)
         THEN [m EXCEPT !.t.hits = Tail(@), !.t.eid = hit._id,
                        !.t.event = SecurityEvent(hit._source, clock),
                        !.t.pbi = 1, !.t.pc = "match",
                        !.t.log = Append(@, Entry("event", hit._id,
                                     SecurityEvent(hit._source, clock),
                                     0, <<>>, ""))]
         ELSE [m EXCEPT !.t.hits = Tail(@), !.t.eid = hit._id,
                        !.t.log = Append(@, Entry("drop", hit._id, NoEvent,
                                                  0, <<>>, ""))]

\* one pass of `for playbook in self.playbooks`; on a match execute_playbook
\* is entered: incident_id is formatted and actions_taken starts empty
NextPlaybook(m) ==
    IF m.t.pbi > Len(playbooks)
    THEN [m EXCEPT !.t.pc = "event"]
    ELSE IF event_matches_playbook(m.t.event, playbooks[m.t.pbi])
    THEN [m EXCEPT !.t.incident_id = IncidentId(clock, m.t.event),
                   !.t.actions_taken = <<>>, !.t.ai = 1, !.t.calls = <<>>,
                   !.t.pc = "action", !.started = @ + 1,
                   !.t.log = Append(@, Entry("start", m.t.eid, NoEvent,
                                m.t.pbi, IncidentId(clock, m.t.event), ""))]
    ELSE [m EXCEPT !.t.pbi = @ + 1]

\* after the action loop: the incident is built and written to
\* self.incidents, then store_incident is awaited
RecordIncident(m) ==
    [m EXCEPT !.incidents = (m.t.incident_id :>
                                IncidentResponse(m.t.incident_id, m.t.event,
                                                 m.t.actions_taken, clock))
                            @@ @,
              !.executed = @ + 1,
              !.created[<<m.t.eid, m.t.pbi>>] = @ + 1,
              !.t.pc = "store"]

\* one pass of `for action in playbook.actions` up to the capability's
\* awaited backend call; without such a call the pass completes at once
NextAction(m) ==
    IF m.t.ai > Len(playbooks[m.t.pbi].actions) THEN RecordIncident(m)
    ELSE LET type == ActionAt(playbooks[m.t.pbi], m.t.ai).type IN
         IF type \in KnownTypes /\ AwaitsBackend(type, m.t.event, slack)
         THEN [m EXCEPT !.t.pc = "inflight",
                        !.t.calls = Append(@, Call(m.t.ai, type, "pending"))]
         ELSE [m EXCEPT !.t.actions_taken = AfterAction(@, type, m.t.event),
                        !.t.calls = IF type \in KnownTypes
                                      THEN Append(@, Call(m.t.ai, type, "nocall"))
                                      ELSE @,
                        !.t.ai = @ + 1]

\* the coroutine's next statement; a suspended coroutine stays where it is
Step(m) ==
    CASE m.t.pc = "event" -> NextRecord(m)
      [] m.t.pc = "match" -> NextPlaybook(m)
      [] m.t.pc = "action" -> NextAction(m)
      [] OTHER -> m

\* the coroutine runs for 2^k statements, or until it suspends
RECURSIVE RunFor(_, _)
RunFor(m, k) ==
    IF k = 0 \/ m.t.pc \notin {"event", "match", "action"} THEN Step(m)
    ELSE RunFor(RunFor(m, k - 1), k - 1)

\* the coroutine runs until it suspends (a batch of QuerySize records is
\* many statements long: they are taken in blocks)
RECURSIVE Run(_)
Run(m) ==
    IF m.t.pc \notin {"event", "match", "action"} THEN m
    ELSE Run(RunFor(m, 6))

\* mutant: the capability lets the error of its backend call through, so
\* that execute_playbook's except clause ends the execution
AfterBackendCallRaising(m, outcome) ==
    LET type == ActionAt(playbooks[m.t.pbi], m.t.ai).type IN
    IF outcome = "fail"
    THEN [m EXCEPT !.t.pbi = @ + 1, !.t.pc = "match", !.t.ai = 0,
                   !.t.actions_taken = <<>>, !.t.incident_id = <<>>,
                   !.t.calls = <<>>]
    ELSE [m EXCEPT !.t.actions_taken = AfterAction(@, type, m.t.event),
                   !.t.calls[Len(m.t.calls)] = Call(m.t.ai, type, outcome),
                   !.t.ai = @ + 1,
                   !.t.pc = "action"]

\* the awaited backend call of the capability is over: it returned, or it
\* raised and the capability's own except clause logged the error; the
\* capability returns, execute_playbook appends the summary and loops
AfterBackendCall(m, outcome) ==
    LET type == ActionAt(playbooks[m.t.pbi], m.t.ai).type IN
    [m EXCEPT !.t.actions_taken = AfterAction(@, type, m.t.event),
              !.t.calls[Len(m.t.calls)] = Call(m.t.ai, type, outcome),
              !.t.ai = @ + 1,
              !.t.pc = "action"]

\* mutant: the playbook loop is left after the first execution
AfterStoreBreaking(m, outcome) ==
    [m EXCEPT !.t.pbi = Len(playbooks) + 1, !.t.pc = "match", !.t.ai = 0,
              !.t.actions_taken = <<>>, !.t.incident_id = <<>>,
              !.t.calls = <<>>,
              !.t.log = Append(@, Entry("end", m.t.eid, NoEvent, m.t.pbi,
                                        m.t.incident_id, outcome))]

\* mutant: a failed store_incident takes the incident out of self.incidents
AfterStoreRollingBack(m, outcome) ==
    [m EXCEPT !.t.pbi = @ + 1, !.t.pc = "match", !.t.ai = 0,
              !.t.actions_taken = <<>>, !.t.incident_id = <<>>,
              !.t.calls = <<>>,
              !.t.log = Append(@, Entry("end", m.t.eid, NoEvent, m.t.pbi,
                                        m.t.incident_id, outcome)),
              !.incidents = IF outcome = "fail"
                            THEN [id \in DOMAIN @ \ {m.t.incident_id} |-> @[id]]
                            ELSE @]

\* store_incident is over (its except clause logs a failure);
\* execute_playbook returns and the playbook loop goes on
AfterStore(m, outcome) ==
    [m EXCEPT !.t.pbi = @ + 1, !.t.pc = "match", !.t.ai = 0,
              !.t.actions_taken = <<>>, !.t.incident_id = <<>>,
              !.t.calls = <<>>,
              !.t.log = Append(@, Entry("end", m.t.eid, NoEvent, m.t.pbi,
                                        m.t.incident_id, outcome))]

\* the state after coroutine t has run from m to its next suspension
Resume(t, m) ==
    LET r == Run(m) IN
    /\ task' = [task EXCEPT ![t] = r.t]
    /\ incidents' = r.incidents
    /\ started' = r.started
    /\ executed' = r.executed
    /\ created' = r.created

Outcomes == {"ok", "fail"}

Max(a, b) == IF a > b THEN a ELSE b

\* a failing backend call is an environment event
Upset(outcome) ==
    /\ outcome = "fail" => upsets < MaxUpsets
    /\ upsets' = IF outcome = "fail" THEN upsets + 1 ELSE upsets

----------------------------------------------------------------------------
(* Specification of the orchestrator *)

Init ==
    /\ \E setup \in Setups :
          /\ files = setup.files
          /\ slack = setup.slack
          /\ index = setup.index
    /\ clock = 0
    /\ sys = "startup"
    /\ playbooks = <<>>
    /\ incidents = NoIncidents
    /\ task = <<>>
    /\ started = 0
    /\ executed = 0
    /\ created = <<>>
    /\ polls = 0
    /\ upsets = 0
    /\ mPc = "off"
    /\ mEvent = NoEvent
    /\ mPlaybook = PlaybookConfig(FileSqli)
    /\ mResult = FALSE

\* startup_event -> initialize(): load the playbooks, create the monitor task
Initialize ==
    /\ sys = "startup"
    /\ sys' = "serving"
    /\ playbooks' = load_playbooks(files)
    /\ task' = <<NewTask("monitor", "query", <<>>)>>
    /\ created' = [p \in ({h._id : h \in index} \cup ManualIds)
                            \X (1..Len(playbooks')) |-> 0]
    /\ UNCHANGED <<envVars, incidents, started, executed, polls, upsets,
                   matchVars>>

\* monitor_security_events: the awaited search returns and the batch is
\* processed up to the first await
QueryOk ==
    /\ sys = "serving"
    /\ task[Monitor].pc = "query"
    /\ polls < MaxPolls
    /\ polls' = polls + 1
    /\ LET hits == search(index, clock) IN
       Resume(Monitor, [Machine(Monitor) EXCEPT
                           !.t.hits = hits, !.t.pc = "event",
                           !.t.batch = hits, !.t.log = <<>>,
                           !.t.answers = Append(@, "ok")])
    /\ UNCHANGED <<envVars, sys, playbooks, upsets, matchVars>>

\* mutant: the error of the search leaves the while loop and the monitor
\* task ends
QueryFailEnding ==
    /\ sys = "serving"
    /\ task[Monitor].pc = "query"
    /\ polls < MaxPolls
    /\ polls' = polls + 1
    /\ Upset("fail")
    /\ task' = [task EXCEPT
                  ![Monitor].pc = "done",
                  ![Monitor].batch = <<>>, ![Monitor].log = <<>>,
                  ![Monitor].answers = Append(@, "fail")]
    /\ UNCHANGED <<envVars, orchVars, started, executed, created, matchVars>>

\* monitor_security_events: the awaited search raises; log, asyncio.sleep(30)
QueryFail ==
    /\ sys = "serving"
    /\ task[Monitor].pc = "query"
    /\ polls < MaxPolls
    /\ polls' = polls + 1
    /\ Upset("fail")
    /\ task' = [task EXCEPT
                  ![Monitor].pc = "backoff",
                  ![Monitor].wake = clock + BackoffSeconds * TicksPerSecond,
                  ![Monitor].batch = <<>>, ![Monitor].log = <<>>,
                  ![Monitor].answers = Append(@, "fail")]
    /\ UNCHANGED <<envVars, orchVars, started, executed, created, matchVars>>

\* monitor_security_events: asyncio.sleep is over, the loop issues its query
SleepDone ==
    /\ sys = "serving"
    /\ task[Monitor].pc \in {"sleep", "backoff"}
    /\ clock' = Max(clock, task[Monitor].wake)
    /\ task' = [task EXCEPT ![Monitor].pc = "query"]
    /\ UNCHANGED <<files, slack, index, orchVars, bookVars, matchVars>>

\* mutant: the route awaits process_security_event before it answers
manual_response_inline(body) ==
    /\ sys = "serving"
    /\ upsets < MaxUpsets
    /\ Len(task) - 1 < MaxManual
    /\ upsets' = upsets + 1
    /\ LET r == Run([t |-> NewTask("manual", "event",
                                   <<Hit(0 - Len(task), body)>>),
                     incidents |-> incidents, started |-> started,
                     executed |-> executed, created |-> created]) IN
          /\ task' = Append(task, r.t)
          /\ incidents' = r.incidents
          /\ started' = r.started
          /\ executed' = r.executed
          /\ created' = r.created
    /\ UNCHANGED <<envVars, sys, playbooks, polls, matchVars>>

\* POST /manual-response: queue process_security_event(event.dict()) as a
\* background task and answer {"status": "response initiated", ...}
manual_response(body) ==
    /\ sys = "serving"
    /\ upsets < MaxUpsets
    /\ Len(task) - 1 < MaxManual
    /\ upsets' = upsets + 1
    /\ task' = Append(task, NewTask("manual", "queued",
                                    <<Hit(0 - Len(task), body)>>))
    /\ UNCHANGED <<envVars, orchVars, started, executed, created, polls,
                   matchVars>>

\* coroutine t can be resumed: the event loop runs; once the server is told
\* to stop, the monitor task never runs again, while a background task of a
\* request may be let finish by the server or be cut as well
Runnable(t) ==
    \/ sys = "serving"
    \/ sys = "stopped" /\ task[t].kind = "manual"

\* the background task starts
BackgroundStart(t) ==
    /\ Runnable(t)
    /\ task[t].pc = "queued"
    /\ Resume(t, [Machine(t) EXCEPT !.t.pc = "event"])
    /\ UNCHANGED <<envVars, sys, playbooks, polls, upsets, matchVars>>

\* execute_playbook: the awaited capability returns
ActionReturn(t, outcome) ==
    /\ Runnable(t)
    /\ task[t].pc = "inflight"
    /\ Upset(outcome)
    /\ Resume(t, AfterBackendCall(Machine(t), outcome))
    /\ UNCHANGED <<envVars, sys, playbooks, polls, matchVars>>

\* mutant: a playbook is switched off in the registry once it has run
StoreReturnDisabling(t, outcome) ==
    /\ Runnable(t)
    /\ task[t].pc = "store"
    /\ Upset(outcome)
    /\ Resume(t, AfterStore(Machine(t), outcome))
    /\ playbooks' = [playbooks EXCEPT ![task[t].pbi].enabled = FALSE]
    /\ UNCHANGED <<envVars, sys, polls, matchVars>>

\* execute_playbook: the awaited store_incident returns
StoreReturn(t, outcome) ==
    /\ Runnable(t)
    /\ task[t].pc = "store"
    /\ Upset(outcome)
    /\ Resume(t, AfterStore(Machine(t), outcome))
    /\ UNCHANGED <<envVars, sys, playbooks, polls, matchVars>>

\* time passes while some backend call is awaited
Tick ==
    /\ \E t \in DOMAIN task :
          Runnable(t) /\ task[t].pc \in {"inflight", "store"}
    /\ upsets < MaxUpsets
    /\ upsets' = upsets + 1
    /\ clock' = clock + 1
    /\ UNCHANGED <<files, slack, index, orchVars, task, started, executed,
                   created, polls, matchVars>>

\* the server is told to stop and uvicorn.run returns.  The program has no
\* shutdown handler and keeps no reference to the monitor task: the task is
\* cancelled at the await where it is suspended (CancelledError is not an
\* Exception, so no except clause of the pipeline catches it) and never
\* runs again
Shutdown ==
    /\ sys = "serving"
    /\ sys' = "stopped"
    /\ UNCHANGED <<envVars, playbooks, incidents, task, bookVars, matchVars>>

Next ==
    \/ Initialize
    \/ QueryOk
    \/ QueryFail
    \/ SleepDone
    \/ \E body \in ManualEvents : manual_response(body)
    \/ \E t \in DOMAIN task : BackgroundStart(t)
    \/ \E t \in DOMAIN task, outcome \in Outcomes : ActionReturn(t, outcome)
    \/ \E t \in DOMAIN task, outcome \in Outcomes : StoreReturn(t, outcome)
    \/ Tick
    \/ Shutdown

Spec == Init /\ [][Next]_vars

\* asyncio.sleep returns once its delay has passed
SpecLive == Spec /\ WF_vars(SleepDone)

----------------------------------------------------------------------------
(* Properties of the dispatcher (specification Spec) *)

\* the types of the first n declared actions that name a capability
RECURSIVE DeclaredCalls(_, _)
DeclaredCalls(playbook, n) ==
    IF n = 0 THEN <<>>
    ELSE LET rest == DeclaredCalls(playbook, n - 1)
             type == playbook.actions[n].type IN
         IF type \in KnownTypes THEN Append(rest, type) ELSE rest

InvokedTypes(t) == [k \in 1..Len(task[t].calls) |-> task[t].calls[k].type]

Declared(t) == playbooks[task[t].pbi].actions

\* C1: the capabilities of an execution are invoked in the order of the
\* playbook's actions list and one at a time: while a call is awaited the
\* calls made so far are those of the declared actions up to the current
\* one, in order, and only the last of them has not returned; when the
\* incident is written they are those of the whole list, all returned,
\* whichever of them failed.
ActionOrder ==
    \A t \in DOMAIN task :
        LET c == task[t].calls IN
        /\ task[t].pc = "inflight" =>
              /\ InvokedTypes(t) = DeclaredCalls(playbooks[task[t].pbi], task[t].ai)
              /\ c # <<>>
              /\ \A k \in 1..Len(c) : (c[k].outcome = "pending") <=> (k = Len(c))
        /\ task[t].pc = "store" =>
              /\ InvokedTypes(t) = DeclaredCalls(playbooks[task[t].pbi],
                                                 Len(Declared(t)))
              /\ \A k \in 1..Len(c) : c[k].outcome # "pending"

\* C1 witness: an execution of three calls is complete whose middle call
\* failed
ActionOrderWitness ==
    \E t \in DOMAIN task :
        /\ task[t].pc = "store"
        /\ Len(task[t].calls) >= 3
        /\ task[t].calls[2].outcome = "fail"

\* C2: a failing capability call stops nothing: every capability declared
\* after it is still invoked and the incident is in self.incidents when the
\* execution reaches store_incident; and no execution is abandoned (each
\* one entered has written its incident or is awaiting a capability).
FailureIsolation ==
    /\ \A t \in DOMAIN task :
          task[t].pc = "store" =>
            /\ task[t].incident_id \in DOMAIN incidents
            /\ \A k \in 1..Len(task[t].calls) :
                  task[t].calls[k].outcome = "fail" =>
                    \A i \in (task[t].calls[k].idx + 1)..Len(Declared(t)) :
                        Declared(t)[i].type \in KnownTypes =>
                          \E j \in (k + 1)..Len(task[t].calls) :
                              task[t].calls[j].idx = i
    /\ started = executed
                 + Cardinality({t \in DOMAIN task : task[t].pc = "inflight"})

\* C2 witness: the incident of an execution is written although a call
\* that was not the last one failed
FailureIsolationWitness ==
    \E t \in DOMAIN task :
        /\ task[t].pc = "store"
        /\ task[t].incident_id \in DOMAIN incidents
        /\ \E k \in 1..(Len(task[t].calls) - 1) :
              task[t].calls[k].outcome = "fail"

\* C3 (as claimed): when the incident is written actions_taken has one entry
\* per declared action, and the entry of an action of unknown type is the
\* synthetic "action skipped: unknown type"
OneEntryPerAction ==
    \A t \in DOMAIN task :
        task[t].pc = "store" =>
          /\ Len(task[t].actions_taken) = Len(Declared(t))
          /\ \A i \in 1..Len(Declared(t)) :
                Declared(t)[i].type \notin KnownTypes =>
                  /\ i <= Len(task[t].actions_taken)
                  /\ task[t].actions_taken[i] = <<"action skipped: unknown type">>

\* C4 (as claimed): the entry of a capability call that failed is the failure
\* entry "<action> failed: <reason>", never the success summary
FailureEntryRecorded ==
    \A t \in DOMAIN task :
        task[t].pc = "store" =>
          \A k \in 1..Len(task[t].calls) :
              task[t].calls[k].outcome = "fail" =>
                /\ k <= Len(task[t].actions_taken)
                /\ task[t].actions_taken[k] = <<task[t].calls[k].type, "failed">>
                /\ task[t].actions_taken[k]
                     # Summary(task[t].calls[k].type, task[t].event)

\* C5 (as claimed): over any sequence of polls at most one incident is
\* created for a polled record and a playbook
DedupInvariant ==
    \A p \in DOMAIN created : p[1] \in HitIds => created[p] <= 1

\* C6 (as claimed): every execution has an incident of its own: the store
\* holds as many incidents as executions have written one
IncidentPerExecution == Cardinality(DOMAIN incidents) = executed

\* C7 in the pipeline (the matcher itself is examined under SpecMatch): no
\* execution is entered and no incident is written for a disabled playbook
DisabledNeverExecuted ==
    /\ \A p \in DOMAIN created :
          ~playbooks[p[2]].enabled => created[p] = 0
    /\ \A t \in DOMAIN task :
          task[t].pc \in {"inflight", "store"} => playbooks[task[t].pbi].enabled

----------------------------------------------------------------------------
(* Properties of the pipeline (specification Spec) *)

\* the indices of the playbooks that match ev, in registry order
Matching(ev) ==
    SelectSeq([p \in 1..Len(playbooks) |-> p],
              LAMBDA p : event_matches_playbook(ev, playbooks[p]))

\* one execution per matching playbook, each ended before the next starts
ExpectedRuns(ev) ==
    LET M == Matching(ev) IN
    [n \in 1..(2 * Len(M)) |->
        <<IF n % 2 = 1 THEN "start" ELSE "end", M[(n + 1) \div 2]>>]

\* the log position at which the next record after entry i begins
SegmentEnd(L, i) ==
    IF \E j \in (i + 1)..Len(L) : L[j].kind \in {"event", "drop"}
    THEN CHOOSE j \in (i + 1)..Len(L) :
            /\ L[j].kind \in {"event", "drop"}
            /\ \A k \in (i + 1)..(j - 1) : L[k].kind \notin {"event", "drop"}
    ELSE Len(L) + 1

\* what the log holds for the record of entry i: starts and ends of executions
Runs(L, i) ==
    [n \in 1..(SegmentEnd(L, i) - i - 1) |-> <<L[i + n].kind, L[i + n].pbi>>]

IsPrefix(a, b) == Len(a) <= Len(b) /\ \A n \in 1..Len(a) : a[n] = b[n]

\* coroutine t is inside execute_playbook
Working(t) == task[t].pc \in {"inflight", "store"}

\* C11: for each event the matching playbooks are executed one after the
\* other in registry order: the executions logged for an event are, in
\* order, start and end of the first matching playbook, start and end of
\* the second, and so on; all k of them once the coroutine is past the
\* event; and while an execution is underway it is the last one started
PlaybookOrder ==
    \A t \in DOMAIN task :
        LET L == task[t].log IN
        \A i \in 1..Len(L) :
            L[i].kind = "event" =>
              LET runs == Runs(L, i)
                  want == ExpectedRuns(L[i].event)
                  last == SegmentEnd(L, i) > Len(L) IN
              /\ IsPrefix(runs, want)
              /\ (~last \/ ~Working(t)) => runs = want
              /\ (last /\ Working(t)) =>
                    /\ runs # <<>>
                    /\ runs[Len(runs)] = <<"start", task[t].pbi>>

\* C11 witness: a coroutine is past an event that two playbooks match, both
\* executions done
PlaybookOrderWitness ==
    \E t \in DOMAIN task :
        /\ ~Working(t)
        /\ \E i \in 1..Len(task[t].log) :
              /\ task[t].log[i].kind = "event"
              /\ Len(Matching(task[t].log[i].event)) >= 2
              /\ Len(Runs(task[t].log, i)) >= 4

\* the monitor task exists
Polling == sys # "startup"

\* where the monitor task stands
MonitorPc == IF Polling THEN task[Monitor].pc ELSE "none"

\* the query that was awaited has just failed
JustFailed ==
    /\ Len(task'[Monitor].answers) = Len(task[Monitor].answers) + 1
    /\ task'[Monitor].answers[Len(task'[Monitor].answers)] = "fail"

\* records of the batch that process_security_event has been called for
Handled(t) ==
    SelectSeq(task[t].log, LAMBDA e : e.kind \in {"event", "drop"})

\* C12: a failing query never ends the poll loop.  The monitor task is
\* always in the loop; the step in which a query fails takes it to the
\* 30 s sleep; a sleep is only left for the next query, and not before its
\* delay has passed (30 s after a failure, 10 s after a batch); every sleep
\* is followed by a next query unless the server is stopped; and the 10 s
\* sleep is reached only after an answered query, with every record of the
\* answer handled
PollLoopSurvivesFailure ==
    /\ [](Polling =>
            MonitorPc \in {"query", "inflight", "store", "sleep", "backoff"})
    /\ [][(Polling /\ JustFailed) =>
            /\ task'[Monitor].pc = "backoff"
            /\ task'[Monitor].wake = clock + BackoffSeconds * TicksPerSecond]_vars
    /\ [][(MonitorPc = "sleep" /\ task'[Monitor].pc # "sleep") =>
            /\ task'[Monitor].pc = "query"
            /\ clock' >= task[Monitor].wake]_vars
    /\ [][(MonitorPc = "backoff" /\ task'[Monitor].pc # "backoff") =>
            /\ task'[Monitor].pc = "query"
            /\ clock' >= task[Monitor].wake]_vars
    /\ [](MonitorPc = "sleep" =>
            /\ task[Monitor].answers # <<>>
            /\ task[Monitor].answers[Len(task[Monitor].answers)] = "ok"
            /\ Len(Handled(Monitor)) = Len(task[Monitor].batch))
    /\ (MonitorPc \in {"sleep", "backoff"}
          ~> (MonitorPc = "query" \/ sys = "stopped"))

\* the ids of a sequence of hits or of log entries
HitIdsOf(hits) == [n \in 1..Len(hits) |-> hits[n]._id]

EntryIdsOf(entries) == [n \in 1..Len(entries) |-> entries[n].eid]

\* the coroutine is through its batch
BatchDone(t) == task[t].pc \in {"sleep", "query", "done"}

\* C12 witness: the first poll failed, the second was answered, and the
\* monitor has executed a playbook for a record of the answer
PollLoopWitness ==
    /\ Polling
    /\ task[Monitor].answers = <<"fail", "ok">>
    /\ task[Monitor].pc = "store"
    /\ task[Monitor].incident_id \in DOMAIN incidents

\* C13: a record whose SecurityEvent cannot be built is dropped and nothing
\* else: the records of a batch are handled one by one in the order of the
\* answer, all of them once the coroutine is through the batch; a record is
\* dropped exactly when its event cannot be built; a dropped record starts
\* no execution and no incident is ever written for it; and the monitor is
\* in the 30 s sleep only after a failed query, its sleep after a batch
\* being the 10 s one
MalformedDropped ==
    \A t \in DOMAIN task :
        LET L == task[t].log
            H == Handled(t) IN
        /\ IsPrefix(EntryIdsOf(H), HitIdsOf(task[t].batch))
        /\ BatchDone(t) => Len(H) = Len(task[t].batch)
        /\ \A n \in 1..Len(H) :
              (H[n].kind = "drop")
                <=> ~CanBuildEvent(task[t].batch[n]._source, clock)
        /\ \A i \in 1..Len(L) :
              L[i].kind = "drop" =>
                /\ Runs(L, i) = <<>>
                /\ \A p \in 1..Len(playbooks) : created[<<L[i].eid, p>>] = 0
        /\ task[t].pc = "backoff" =>
              task[t].answers[Len(task[t].answers)] = "fail"
        /\ task[t].pc = "sleep" =>
              task[t].wake <= clock + PollSeconds * TicksPerSecond

\* C13 witness: the monitor is in the 10 s sleep after a batch in which a
\* record was dropped and a playbook was executed for a later record
MalformedDroppedWitness ==
    /\ MonitorPc = "sleep"
    /\ \E i, j \in 1..Len(task[Monitor].log) :
          /\ i < j
          /\ task[Monitor].log[i].kind = "drop"
          /\ task[Monitor].log[j].kind = "end"
          /\ task[Monitor].log[j].id \in DOMAIN incidents

\* C14: one poll at a time.  There is one monitor task, and while its query
\* is awaited nothing of the previous batch is left: no record unhandled, no
\* execution underway, and for every event of the batch every matching
\* playbook executed to its end
OnePollAtATime ==
    Polling =>
      /\ Cardinality({t \in DOMAIN task : task[t].kind = "monitor"}) = 1
      /\ MonitorPc = "query" =>
            LET L == task[Monitor].log IN
            /\ task[Monitor].hits = <<>>
            /\ Len(Handled(Monitor)) = Len(task[Monitor].batch)
            /\ \A i \in 1..Len(L) :
                  L[i].kind = "event" => Runs(L, i) = ExpectedRuns(L[i].event)
            /\ Cardinality({i \in 1..Len(L) : L[i].kind = "start"})
                 = Cardinality({i \in 1..Len(L) : L[i].kind = "end"})

\* C14 witness: the next query is awaited after a batch of two records
\* with two executions
OnePollAtATimeWitness ==
    /\ MonitorPc = "query"
    /\ Len(task[Monitor].batch) >= 2
    /\ Cardinality({i \in 1..Len(task[Monitor].log) :
                       task[Monitor].log[i].kind = "end"}) >= 2

\* C15 (as claimed): the poll loop is stopped between two polls only: when
\* the server has stopped the monitor is in one of its sleeps, not awaiting
\* its query nor a call of an execution, and every execution it has started
\* has run to the end and written its incident
ShutdownBetweenTicks ==
    sys = "stopped" =>
      /\ MonitorPc \in {"sleep", "backoff"}
      /\ \A i \in 1..Len(task[Monitor].log) :
            task[Monitor].log[i].kind = "start" =>
              /\ task[Monitor].log[i].id \in DOMAIN incidents
              /\ \E j \in (i + 1)..Len(task[Monitor].log) :
                    /\ task[Monitor].log[j].kind = "end"
                    /\ task[Monitor].log[j].id = task[Monitor].log[i].id

IncidentBeforeActions ==
    \A t \in DOMAIN task :
        task[t].pc = "inflight" =>
          /\ task[t].incident_id \in DOMAIN incidents
          /\ incidents[task[t].incident_id].status = "active"
          /\ \E inc \in get_incidents(incidents) :
                inc.incident_id = task[t].incident_id
          /\ get_stats(incidents, playbooks).active_incidents >= 1

\* C18: a manual request is answered before anything is done with it and
\* handled afterwards by process_security_event.  The step that takes the
\* request only adds a background task that has not started: no matching,
\* no execution, no incident, no other coroutine touched; and a background
\* task that has started handles its one record as the monitor handles a
\* hit: the event is built from the request by SecurityEvent, and once the
\* task is done every playbook matching that event has been executed, in
\* registry order
ManualIsAsynchronous ==
    /\ [][(Polling /\ Len(task') > Len(task)) =>
            /\ Len(task') = Len(task) + 1
            /\ task'[Len(task')].kind = "manual"
            /\ task'[Len(task')].pc = "queued"
            /\ task'[Len(task')].log = <<>>
            /\ \A t \in DOMAIN task : task'[t] = task[t]
            /\ incidents' = incidents
            /\ started' = started
            /\ executed' = executed]_vars
    /\ [](\A t \in DOMAIN task :
            (task[t].kind = "manual" /\ task[t].pc # "queued") =>
              LET L == task[t].log IN
              /\ Len(Handled(t)) = 1
              /\ \A i \in 1..Len(L) :
                    L[i].kind = "event" =>
                      /\ L[i].event = SecurityEvent(task[t].batch[1]._source,
                                                    L[i].event.timestamp)
                      /\ IsPrefix(Runs(L, i), ExpectedRuns(L[i].event))
                      /\ task[t].pc = "done" =>
                            Runs(L, i) = ExpectedRuns(L[i].event))

\* C18 witness: a background task is done, and the playbook matching its
\* event was executed and its incident written
ManualIsAsynchronousWitness ==
    \E t \in DOMAIN task :
        /\ task[t].kind = "manual"
        /\ task[t].pc = "done"
        /\ \E i \in 1..Len(task[t].log) :
              /\ task[t].log[i].kind = "end"
              /\ task[t].log[i].id \in DOMAIN incidents

\* C19: a failing store_incident loses nothing: for every execution whose
\* store_incident call failed the execution has returned to the playbook
\* loop and its incident is in self.incidents, returned by GET /incidents
\* and counted by GET /stats
StoreFailureKeepsIncident ==
    \A t \in DOMAIN task :
        \A i \in 1..Len(task[t].log) :
            (task[t].log[i].kind = "end" /\ task[t].log[i].stored = "fail") =>
              /\ task[t].log[i].id \in DOMAIN incidents
              /\ \E inc \in get_incidents(incidents) :
                    inc.incident_id = task[t].log[i].id
              /\ get_stats(incidents, playbooks).active_incidents >= 1
              /\ task[t].pc # "store" \/ task[t].pbi > task[t].log[i].pbi
                                      \/ task[t].eid # task[t].log[i].eid

\* C19 witness: store_incident failed for an execution, whose incident is
\* in the store, and the coroutine has gone on
StoreFailureWitness ==
    \E t \in DOMAIN task :
        \E i \in 1..Len(task[t].log) :
            /\ task[t].log[i].kind = "end"
            /\ task[t].log[i].stored = "fail"
            /\ task[t].log[i].id \in DOMAIN incidents
            /\ task[t].pc \in {"inflight", "sleep", "done"}

\* the files of a listing that hold a well-formed playbook
WellFormedFiles(listing) ==
    SelectSeq(listing, LAMBDA f : /\ f.ext \in {"yaml", "yml"}
                                  /\ ValidPlaybook(f.data))

\* C21 (as claimed): a malformed playbook file is skipped on its own: after
\* startup the registry holds the playbook of every well-formed file of the
\* directory, in the order of the listing
MalformedFileSkipped ==
    Polling =>
      playbooks = [i \in 1..Len(WellFormedFiles(files)) |->
                     PlaybookConfig(WellFormedFiles(files)[i].data)]

\* C22: the registry is read-only after load: once initialize has run no
\* step changes self.playbooks, which stays what load_playbooks made of the
\* directory
RegistryReadOnly ==
    /\ [][Polling => playbooks' = playbooks]_vars
    /\ [](Polling => playbooks = load_playbooks(files))

\* C22 witness: two polls were answered, executions have written their
\* incidents, and the registry of two playbooks is as loaded
RegistryReadOnlyWitness ==
    /\ Polling
    /\ polls >= 2
    /\ executed >= 2
    /\ Len(playbooks) >= 2
    /\ playbooks = load_playbooks(files)

\* C23 (as claimed): a remediation that was not performed is not recorded as
\* done: when the incident is written, for a block_ip, isolate_host or
\* disable_user action whose capability returned without a backend call,
\* actions_taken has no success entry of that action
NoPhantomRemediation ==
    \A t \in DOMAIN task :
        task[t].pc = "store" =>
          \A k \in 1..Len(task[t].calls) :
              (/\ task[t].calls[k].outcome = "nocall"
               /\ task[t].calls[k].type
                     \in {"block_ip", "isolate_host", "disable_user"})
              => \A n \in 1..Len(task[t].actions_taken) :
                    task[t].actions_taken[n]
                      # Summary(task[t].calls[k].type, task[t].event)

\* the event a request body denotes: the field values it was submitted with
AsSubmitted(body) ==
    [timestamp |-> body.timestamp, event_type |-> body.event_type,
     severity |-> body.severity, source |-> body.source,
     source_ip |-> body.source_ip, user |-> body.user,
     description |-> body.description, tags |-> body.tags]

\* C24 (as claimed): the event that the matcher and the dispatcher see for a
\* manual request has the severity, description, user and timestamp of the
\* request, and once the background task is done every playbook matching
\* the event as submitted has been executed
ManualFieldsPreserved ==
    \A t \in DOMAIN task :
        task[t].kind = "manual" =>
          LET L == task[t].log
              body == task[t].batch[1]._source IN
          \A i \in 1..Len(L) :
              L[i].kind = "event" =>
                /\ L[i].event.severity = body.severity
                /\ L[i].event.description = body.description
                /\ L[i].event.user = body.user
                /\ L[i].event.timestamp = body.timestamp
                /\ task[t].pc = "done" =>
                      Runs(L, i) = ExpectedRuns(AsSubmitted(body))

\* C25 (as claimed): after an answered poll every document of the index
\* that the query's filter selects and that is still in the query's window
\* has been handed to process_security_event, however many there are
ForwardsEveryRelevantEvent ==
    MonitorPc = "sleep" =>
      \A h \in index :
          (Relevant(h._source) /\ InWindow(h._source, clock)) =>
            \E n \in 1..Len(Handled(Monitor)) :
                Handled(Monitor)[n].eid = h._id

----------------------------------------------------------------------------
(* Matcher harness: inputs drawn in Init, one call of the matcher *)

Severities == KnownSeverities \cup {"bogus"}

\* gate inputs: every severity pair, both enabled values, one short trigger
GateEvents ==
    [event_type : StrsUpTo(1), description : {<<>>}, tags : {<<>>},
     severity : Severities]

GatePlaybooks ==
    [enabled : BOOLEAN, severity_threshold : Severities,
     triggers : [1..1 -> StrsUpTo(1)]]

\* trigger inputs: an enabled playbook whose threshold the event reaches
TriggerEvents ==
    [event_type : StrsUpTo(MaxStrLen), description : StrsUpTo(MaxStrLen),
     tags : UNION {[1..k -> StrsUpTo(MaxStrLen)] : k \in 0..1},
     severity : {"high"}]

TriggerPlaybooks ==
    [enabled : {TRUE}, severity_threshold : {"medium"},
     triggers : [1..1 -> StrsUpTo(MaxStrLen)] \cup
                UNION {[1..k -> StrsUpTo(1)] : k \in 0..MaxTriggers}]

InitMatch ==
    /\ files = <<>>
    /\ slack = FALSE
    /\ index = {}
    /\ clock = 0
    /\ sys = "off"
    /\ playbooks = <<>>
    /\ incidents = NoIncidents
    /\ task = <<>>
    /\ started = 0
    /\ executed = 0
    /\ created = <<>>
    /\ polls = 0
    /\ upsets = 0
    /\ mPc = "input"
    /\ mResult = FALSE
    /\ \/ mEvent \in GateEvents /\ mPlaybook \in GatePlaybooks
       \/ mEvent \in TriggerEvents /\ mPlaybook \in TriggerPlaybooks

Evaluate ==
    /\ mPc = "input"
    /\ mResult' = event_matches_playbook(mEvent, mPlaybook)
    /\ mPc' = "done"
    /\ UNCHANGED <<mEvent, mPlaybook, pipeVars>>

NextMatch == Evaluate

SpecMatch == InitMatch /\ [][NextMatch]_vars

----------------------------------------------------------------------------
(* Properties of the matcher (specification SpecMatch) *)

\* the total order info < low < medium < high < critical
SeverityOrder == <<"info", "low", "medium", "high", "critical">>

Rank(sev) == CHOOSE i \in 1..Len(SeverityOrder) : SeverityOrder[i] = sev

SomeTriggerHits == 
    \E i \in 1..Len(mPlaybook.triggers) :
        trigger_hits(mPlaybook.triggers[i], mEvent)

\* C7: a disabled playbook matches no event
DisabledNeverMatches ==
    (mPc = "done" /\ ~mPlaybook.enabled) => mResult = FALSE

\* C7 witness: the matcher has refused a disabled playbook whose threshold
\* the event reaches and one of whose triggers the event satisfies
DisabledNeverMatchesWitness ==
    /\ mPc = "done"
    /\ ~mPlaybook.enabled
    /\ mEvent.severity = "critical"
    /\ mPlaybook.severity_threshold = "high"
    /\ SomeTriggerHits
    /\ mResult = FALSE

\* C8: with both severities among the five known ones, an event matches
\* only if its rank reaches the rank of the playbook's threshold
SeverityGate ==
    (/\ mPc = "done"
     /\ mEvent.severity \in KnownSeverities
     /\ mPlaybook.severity_threshold \in KnownSeverities
     /\ mResult)
    => Rank(mEvent.severity) >= Rank(mPlaybook.severity_threshold)

\* C8 witness: a low event is refused by an enabled playbook of threshold
\* high one of whose triggers it satisfies
SeverityGateWitness ==
    /\ mPc = "done"
    /\ mPlaybook.enabled
    /\ mEvent.severity = "low"
    /\ mPlaybook.severity_threshold = "high"
    /\ SomeTriggerHits
    /\ mResult = FALSE

\* C9 (as claimed): an enabled playbook whose threshold is not a known
\* severity matches every event that satisfies one of its triggers
UnknownThresholdAlwaysPasses ==
    (/\ mPc = "done"
     /\ mPlaybook.enabled
     /\ mPlaybook.severity_threshold \notin KnownSeverities
     /\ SomeTriggerHits)
    => mResult = TRUE

\* C9 (amended): an unknown threshold counts as critical: an enabled
\* playbook with such a threshold matches exactly the events of severity
\* critical that satisfy one of its triggers
UnknownThresholdIsCritical ==
    (/\ mPc = "done"
     /\ mPlaybook.enabled
     /\ mPlaybook.severity_threshold \notin KnownSeverities)
    => (mResult <=> (mEvent.severity = "critical" /\ SomeTriggerHits))

\* C9 witness: a high event is refused by an enabled playbook of unknown
\* threshold one of whose triggers it satisfies
UnknownThresholdWitness ==
    /\ mPc = "done"
    /\ mPlaybook.enabled
    /\ mPlaybook.severity_threshold \notin KnownSeverities
    /\ mEvent.severity = "high"
    /\ SomeTriggerHits
    /\ mResult = FALSE

\* C26: an event whose severity is none of info, low, medium, high,
\* critical matches no playbook, whatever the playbook's threshold and
\* triggers
UnknownSeverityNeverMatches ==
    (mPc = "done" /\ mEvent.severity \notin KnownSeverities)
    => mResult = FALSE

\* C26 witness: an event of unknown severity is refused by an enabled
\* playbook of the lowest threshold one of whose triggers it satisfies
UnknownSeverityWitness ==
    /\ mPc = "done"
    /\ mEvent.severity \notin KnownSeverities
    /\ mPlaybook.enabled
    /\ mPlaybook.severity_threshold = "info"
    /\ SomeTriggerHits
    /\ mResult = FALSE

\* a trigger is, ignoring letter case, a substring of event_type, of
\* description or of a tag
HitsIgnoringCase(trigger, ev) ==
    \/ Contains(lower(trigger), lower(ev.event_type))
    \/ Contains(lower(trigger), lower(ev.description))
    \/ \E k \in 1..Len(ev.tags) : Contains(lower(trigger), lower(ev.tags[k]))

\* C10 (as claimed): an enabled playbook whose threshold the event reaches
\* matches exactly when some trigger hits ignoring letter case
CaseInsensitiveTriggers ==
    (/\ mPc = "done"
     /\ mPlaybook.enabled
     /\ mEvent.severity \in KnownSeverities
     /\ mPlaybook.severity_threshold \in KnownSeverities
     /\ Rank(mEvent.severity) >= Rank(mPlaybook.severity_threshold))
    => (mResult <=> \E i \in 1..Len(mPlaybook.triggers) :
                        HitsIgnoringCase(mPlaybook.triggers[i], mEvent))

====
